---- MODULE Spec2Model ----
(***************************************************************************)
(* Variable-width bitmap fonts (src/variable_font): the glyph width        *)
(* mappings of mapping.rs and the VariableFont of mod.rs, which crops the  *)
(* glyphs of a MonoFont to the range its GlyphWidthMapping returns.        *)
(*                                                                         *)
(* A u32 is the pair <<hi, lo>> of its two 16-bit halves, so that the      *)
(* values near u32::MAX and i32::MAX, and the overflow of u32 arithmetic,  *)
(* are the ones of the program.  The same pairs with an unbounded high     *)
(* half are the mathematical naturals the properties are stated in.        *)
(***************************************************************************)
EXTENDS Integers, Sequences, FiniteSets, TLC

\* ---------------------------------------------------------------- bounds
MaxTableLen == 2
MaxTextLen == 2
MaxGlyphIndex == 1
NumObjects == 2

\* ------------------------------------------------------------ u32 values
Half == 65536

U(n) == <<0, n>>
Zero == <<0, 0>>
U32Max == <<Half - 1, Half - 1>>

\* i32::MAX + 1, the first u32 that u32 -> i32 try_into() rejects
I32Limit == <<Half \div 2, 0>>

Lt(a, b) == a[1] < b[1] \/ (a[1] = b[1] /\ a[2] < b[2])
Le(a, b) == a = b \/ Lt(a, b)
Min(a, b) == IF Lt(a, b) THEN a ELSE b

\* a + b over the naturals
Add(a, b) == <<a[1] + b[1] + ((a[2] + b[2]) \div Half), (a[2] + b[2]) % Half>>

\* a - b over the naturals, for a >= b
Sub(a, b) ==
    IF a[2] >= b[2] THEN <<a[1] - b[1], a[2] - b[2]>>
    ELSE <<a[1] - b[1] - 1, a[2] + Half - b[2]>>

FitsU32(x) == x[1] < Half
Wrap(x) == <<x[1] % Half, x[2]>>

\* u32::saturating_sub
saturating_sub(a, b) == IF Lt(a, b) THEN Zero ELSE Sub(a, b)

\* u8 as u32
AsU32(byte) == <<0, byte>>

\* Option<T>
None == <<>>
Some(x) == <<x>>
unwrap_or(opt, dflt) == IF opt = None THEN dflt ELSE opt[1]

\* ------------------------------------------------------------ input sets
Chars == {"a", "b"}
Bytes == {0, 3}
DefaultWidths == {None, Some(U(4)), Some(U32Max)}
Spacings == {Zero, U(1), U32Max}

Range(s, e) == [start |-> s, end |-> e]
RangeSamples ==
    { Range(U(2), U(5)), Range(U(5), U(3)), Range(U(20), U(25)),
      Range(I32Limit, Add(I32Limit, U(2))) }
SizeSamples == RangeSamples \cup
    { Range(Zero, Zero), Range(U(7), U(7)), Range(Zero, U32Max),
      Range(U32Max, Zero), Range(U(1), I32Limit) }

Tables == UNION { [1..n -> Bytes] : n \in 0..MaxTableLen }
Texts == UNION { [1..n -> Chars] : n \in 0..MaxTextLen }

\* LookupTableGlyphWidthMapping::new
LookupTableGlyphWidthMapping(lookup_table, default_width) ==
    [kind |-> "table", lookup_table |-> lookup_table,
     default_width |-> default_width]

\* a closure Fn(&MonoFont, char) -> Range<u32>
Closure(f) == [kind |-> "fn", f |-> f]

Mappings ==
    { LookupTableGlyphWidthMapping(t, d) : t \in Tables, d \in DefaultWidths }
    \cup { Closure(f) : f \in [Chars -> RangeSamples] }

\* the fixed-width font the composer is built on
MonoFont(mapping, spacing) ==
    [glyph_mapping |-> mapping,
     character_size |-> [width |-> U(10), height |-> U(12)],
     character_spacing |-> spacing,
     baseline |-> U(9),
     strikethrough |-> [offset |-> U(6), height |-> U(1)],
     underline |-> [offset |-> U(11), height |-> U(1)]]

MonoFonts ==
    { MonoFont(g, s) : g \in [Chars -> 0..MaxGlyphIndex], s \in Spacings }

\* --------------------------------------------------------- call results
Ok(v) == [panicked |-> FALSE, wrapped |-> FALSE, value |-> v]
Panic == [panicked |-> TRUE, wrapped |-> FALSE, value |-> <<>>]

\* slice[i] with its bounds check (i counts from 0)
Index(slice, i) == IF i < Len(slice) THEN Ok(slice[i + 1]) ELSE Panic

\* a + b on u32: overflow panics when the build checks it, and wraps otherwise
u32_add(a, b, overflow_checks) ==
    LET s == Add(a, b)
    IN  IF FitsU32(s) THEN Ok(s)
        ELSE IF overflow_checks THEN Panic
        ELSE [panicked |-> FALSE, wrapped |-> TRUE, value |-> Wrap(s)]

\* u32 -> i32 try_into().unwrap()
try_into_i32(x) == IF Lt(x, I32Limit) THEN Ok(x) ELSE Panic

\* ------------------------------------------------------------ mapping.rs
\* font.glyph_mapping.index(c)
index(font, c) == font.glyph_mapping[c]

\* impl<F: Fn(&MonoFont, char) -> Range<u32>> GlyphWidthMapping for F
closure_glyph_width(self, font, c) == Ok(self.f[c])

\* the lookup with the last table entry taken for out of range
table_glyph_width_short(self, font, c) ==
    LET glyph_index == index(font, c)
    IN  IF glyph_index + 1 < Len(self.lookup_table)
        THEN Ok(Range(Zero, AsU32(self.lookup_table[glyph_index + 1])))
        ELSE Ok(Range(Zero,
                      unwrap_or(self.default_width, font.character_size.width)))

\* the lookup with <= for <: the index at the table's length reads the table
table_glyph_width_le(self, font, c) ==
    LET glyph_index == index(font, c)
    IN  IF glyph_index <= Len(self.lookup_table)
        THEN LET e == Index(self.lookup_table, glyph_index)
             IN  IF e.panicked THEN Panic
                 ELSE Ok(Range(Zero, AsU32(e.value)))
        ELSE Ok(Range(Zero,
                      unwrap_or(self.default_width, font.character_size.width)))

\* impl GlyphWidthMapping for LookupTableGlyphWidthMapping
table_glyph_width(self, font, c) ==
    LET glyph_index == index(font, c)
    IN  IF glyph_index < Len(self.lookup_table)
        THEN LET e == Index(self.lookup_table, glyph_index)
             IN  IF e.panicked THEN Panic
                 ELSE Ok(Range(Zero, AsU32(e.value)))
        ELSE Ok(Range(Zero,
                      unwrap_or(self.default_width, font.character_size.width)))

\* the call through &dyn GlyphWidthMapping
glyph_width(self, font, c) ==
    IF self.kind = "table" THEN table_glyph_width(self, font, c)
    ELSE closure_glyph_width(self, font, c)

\* Range<u32>::is_empty
is_empty(r) == ~Lt(r.start, r.end)

\* end - start without the is_empty test, wrapping below zero
range_size_unguarded(r) ==
    IF Lt(r.end, r.start) THEN Sub(Add(r.end, <<Half, 0>>), r.start)
    ELSE Sub(r.end, r.start)

\* impl RangeSize for Range<u32>
range_size(r) == IF is_empty(r) THEN Zero ELSE Sub(r.end, r.start)

\* ------------------------------------------------- the underlying MonoFont
Point(x, y) == [x |-> x, y |-> y]
Size(w, h) == [width |-> w, height |-> h]
Rectangle(top_left, size) == [top_left |-> top_left, size |-> size]

\* MonoFont::glyph: the full-cell glyph image of c
mono_glyph(font, c) == [glyph_index |-> index(font, c), size |-> font.character_size]

mono_character_height(font) == font.character_size.height
mono_character_spacing(font) == font.character_spacing
mono_baseline(font) == font.baseline
mono_strikethrough(font) == font.strikethrough
mono_underline(font) == font.underline

\* the area lies in the image: its origin is a pixel column of the image
\* and it ends within it
Contained(image, area) ==
    /\ Lt(area.top_left.x, image.size.width)
    /\ Le(Add(area.top_left.x, area.size.width), image.size.width)
    /\ area.top_left.y = Zero
    /\ Le(area.size.height, image.size.height)

\* the area with its horizontal extent cut at the image's right edge; the
\* vertical extent of a crop is never affected
Intersection(image, area) ==
    Rectangle(area.top_left,
              Size(IF Lt(area.top_left.x, image.size.width)
                   THEN Sub(Min(Add(area.top_left.x, area.size.width),
                                image.size.width),
                            area.top_left.x)
                   ELSE Zero,
                   area.size.height))

\* sub_image: the crop of a glyph image.  An area within the image is cropped
\* as asked.  For an area reaching beyond the image's width the result is
\* left open: the crop is either the area as asked or the area cut at the
\* image's edge.
sub_image(image, area) ==
    IF Contained(image, area)
    THEN { [glyph_index |-> image.glyph_index, area |-> area, size |-> area.size] }
    ELSE { [glyph_index |-> image.glyph_index, area |-> a, size |-> a.size] :
             a \in {area, Intersection(image, area)} }

\* ---------------------------------------------------------------- mod.rs
\* VariableFont { mono_font, glyph_width_mapping }: the mapping is a
\* reference, an address of the heap of mapping objects
VariableFont(mono_font, glyph_width_mapping) ==
    [mono_font |-> mono_font, glyph_width_mapping |-> glyph_width_mapping]

\* glyph with the range's end, not its size, as the crop's width
glyph_end_as_width(mem, self, c) ==
    LET image == mono_glyph(self.mono_font, c)
        gw == glyph_width(mem[self.glyph_width_mapping], self.mono_font, c)
    IN  IF gw.panicked \/ try_into_i32(gw.value.start).panicked THEN {Panic}
        ELSE { Ok(g) : g \in sub_image(image,
                 Rectangle(Point(gw.value.start, Zero),
                           Size(gw.value.end, image.size.height))) }

\* glyph with the cell's width, not its height, as the crop's height
glyph_width_as_height(mem, self, c) ==
    LET image == mono_glyph(self.mono_font, c)
        gw == glyph_width(mem[self.glyph_width_mapping], self.mono_font, c)
    IN  IF gw.panicked \/ try_into_i32(gw.value.start).panicked THEN {Panic}
        ELSE { Ok(g) : g \in sub_image(image,
                 Rectangle(Point(gw.value.start, Zero),
                           Size(range_size(gw.value), image.size.width))) }

\* VariableFont::glyph: the set of its outcomes
glyph(mem, self, c) ==
    LET image == mono_glyph(self.mono_font, c)
        mono_glyph_size == image.size
        gw == glyph_width(mem[self.glyph_width_mapping], self.mono_font, c)
    IN  IF gw.panicked THEN {Panic}
        ELSE LET x == try_into_i32(gw.value.start)
             IN  IF x.panicked THEN {Panic}
                 ELSE { Ok(g) : g \in sub_image(image,
                          Rectangle(Point(x.value, Zero),
                                    Size(range_size(gw.value),
                                         mono_glyph_size.height))) }

\* baseline answering with the character height
baseline_as_height(mem, self) == mono_character_height(self.mono_font)

character_height(mem, self) == mono_character_height(self.mono_font)
character_spacing(mem, self) == mono_character_spacing(self.mono_font)
baseline(mem, self) == mono_baseline(self.mono_font)
strikethrough(mem, self) == mono_strikethrough(self.mono_font)
underline(mem, self) == mono_underline(self.mono_font)

\* the closure folded over text.chars(): a + range_size + character_spacing
fold_step(mem, self, a, c, overflow_checks) ==
    LET gw == glyph_width(mem[self.glyph_width_mapping], self.mono_font, c)
    IN  IF gw.panicked THEN Panic
        ELSE LET s1 == u32_add(a.value, range_size(gw.value), overflow_checks)
             IN  IF s1.panicked THEN Panic
                 ELSE LET s2 == u32_add(s1.value,
                                        mono_character_spacing(self.mono_font),
                                        overflow_checks)
                      IN  IF s2.panicked THEN Panic
                          ELSE [panicked |-> FALSE,
                                wrapped |-> a.wrapped \/ s1.wrapped \/ s2.wrapped,
                                value |-> s2.value]

RECURSIVE fold(_, _, _, _, _, _)
fold(mem, self, text, i, a, overflow_checks) ==
    IF a.panicked \/ i > Len(text) THEN a
    ELSE fold(mem, self, text, i + 1,
              fold_step(mem, self, a, text[i], overflow_checks),
              overflow_checks)

\* VariableFont::measure_string_width
measure_string_width(mem, self, text, overflow_checks) ==
    LET a == fold(mem, self, text, 1, Ok(Zero), overflow_checks)
    IN  IF a.panicked THEN Panic
        ELSE [a EXCEPT !.value =
                saturating_sub(a.value, mono_character_spacing(self.mono_font))]

\* equality with the mappings compared by value, not by address
eq_by_value(mem, self, rhs) ==
    /\ self.mono_font = rhs.mono_font
    /\ mem[self.glyph_width_mapping] = mem[rhs.glyph_width_mapping]

\* impl PartialEq for VariableFont: core::ptr::eq on the mapping references
eq(mem, self, rhs) ==
    /\ self.mono_font = rhs.mono_font
    /\ self.glyph_width_mapping = rhs.glyph_width_mapping

\* ----------------------------------------------------------------- state
\* heap  : the mapping objects, by address
\* vf    : the VariableFont the calls are made on
\* other : a second VariableFont, compared with vf
\* call  : the last call and what it returned
VARIABLES heap, vf, other, call
vars == <<heap, vf, other, call>>

Idle == [op |-> "idle", arg |-> <<>>, ret |-> <<>>]
Call(op, arg, ret) == [op |-> op, arg |-> arg, ret |-> ret]

Init ==
    /\ \E m \in Mappings : heap = <<m>>
    /\ \E f \in MonoFonts : vf = VariableFont(f, 1)
    /\ other = vf
    /\ call = Idle

CallGlyphWidth(c) ==
    /\ call' = Call("glyph_width", c,
                    glyph_width(heap[vf.glyph_width_mapping], vf.mono_font, c))
    /\ UNCHANGED <<heap, vf, other>>

CallRangeSize(r) ==
    /\ call' = Call("range_size", r, range_size(r))
    /\ UNCHANGED <<heap, vf, other>>

CallGlyph(c) ==
    /\ \E g \in glyph(heap, vf, c) : call' = Call("glyph", c, g)
    /\ UNCHANGED <<heap, vf, other>>

CallMeasureStringWidth(text) ==
    /\ \E overflow_checks \in BOOLEAN :
          call' = Call("measure_string_width", text,
                       measure_string_width(heap, vf, text, overflow_checks))
    /\ UNCHANGED <<heap, vf, other>>

Next ==
    \/ \E c \in Chars : CallGlyphWidth(c)
    \/ \E r \in SizeSamples : CallRangeSize(r)
    \/ \E c \in Chars : CallGlyph(c)
    \/ \E text \in Texts : CallMeasureStringWidth(text)

Spec == Init /\ [][Next]_vars

\* #[derive(Clone)] of LookupTableGlyphWidthMapping: a second object with
\* the same table and default
CloneMapping(a) ==
    /\ Len(heap) < NumObjects
    /\ heap[a].kind = "table"
    /\ heap' = Append(heap, heap[a])
    /\ call' = Idle
    /\ UNCHANGED <<vf, other>>

\* other = VariableFont { glyph_width_mapping: &heap[a], ..other }
SetMapping(a) ==
    /\ a # other.glyph_width_mapping
    /\ other' = [other EXCEPT !.glyph_width_mapping = a]
    /\ call' = Idle
    /\ UNCHANGED <<heap, vf>>

\* other's font with another character spacing
SetSpacing(s) ==
    /\ s # other.mono_font.character_spacing
    /\ other' = [other EXCEPT !.mono_font.character_spacing = s]
    /\ call' = Idle
    /\ UNCHANGED <<heap, vf>>

\* vf == other
CallEq ==
    /\ call' = Call("eq", <<>>, eq(heap, vf, other))
    /\ UNCHANGED <<heap, vf, other>>

CallCharacterHeight ==
    /\ call' = Call("character_height", <<>>, character_height(heap, other))
    /\ UNCHANGED <<heap, vf, other>>

CallCharacterSpacing ==
    /\ call' = Call("character_spacing", <<>>, character_spacing(heap, other))
    /\ UNCHANGED <<heap, vf, other>>

CallBaseline ==
    /\ call' = Call("baseline", <<>>, baseline(heap, other))
    /\ UNCHANGED <<heap, vf, other>>

CallStrikethrough ==
    /\ call' = Call("strikethrough", <<>>, strikethrough(heap, other))
    /\ UNCHANGED <<heap, vf, other>>

CallUnderline ==
    /\ call' = Call("underline", <<>>, underline(heap, other))
    /\ UNCHANGED <<heap, vf, other>>

NextEq ==
    \/ \E a \in DOMAIN heap : CloneMapping(a)
    \/ \E a \in DOMAIN heap : SetMapping(a)
    \/ \E s \in Spacings : SetSpacing(s)
    \/ CallEq
    \/ CallCharacterHeight
    \/ CallCharacterSpacing
    \/ CallBaseline
    \/ CallStrikethrough
    \/ CallUnderline

SpecEq == Init /\ [][NextEq]_vars

\* ------------------------------------------------------------ properties
\* the mapping object vf refers to, its font, and the glyph index of c
M == heap[vf.glyph_width_mapping]
F == vf.mono_font
WidthSamples == {Zero, U(10), U32Max}

\* max(0, end - start) over the naturals
Extent(r) == IF Lt(r.start, r.end) THEN Sub(r.end, r.start) ELSE Zero

InTable(c) == M.kind = "table" /\ index(F, c) < Len(M.lookup_table)
OutOfTable(c) == M.kind = "table" /\ index(F, c) >= Len(M.lookup_table)

\* C1: for a character whose glyph index is within the lookup table,
\* glyph_width returns 0 .. table[index], whatever the default width and the
\* font's native cell width are.
C1_InTableWidth ==
    (call.op = "glyph_width" /\ InTable(call.arg)) =>
        /\ ~call.ret.panicked
        /\ call.ret.value.start = <<0, 0>>
        /\ call.ret.value.end = <<0, M.lookup_table[index(F, call.arg) + 1]>>
        /\ \A d \in DefaultWidths, w \in WidthSamples :
              glyph_width([M EXCEPT !.default_width = d],
                          [F EXCEPT !.character_size.width = w],
                          call.arg) = call.ret

\* a table entry of 0, with a default configured, gave the range 0..0
C1_Witness ==
    /\ call.op = "glyph_width" /\ InTable(call.arg)
    /\ M.lookup_table[index(F, call.arg) + 1] = 0
    /\ M.default_width = Some(U(4))
    /\ call.ret = Ok(Range(Zero, Zero))

\* C2: for a character whose glyph index is at or beyond the table's length,
\* glyph_width returns 0 .. default_width when a default is configured and
\* 0 .. font.character_size.width when none is.
C2_OutOfTableWidth ==
    (call.op = "glyph_width" /\ OutOfTable(call.arg)) =>
        /\ ~call.ret.panicked
        /\ call.ret.value.start = <<0, 0>>
        /\ call.ret.value.end =
              (IF M.default_width = None THEN F.character_size.width
               ELSE M.default_width[1])

\* the index exactly at the length of a non-empty table fell back to the
\* font's width
C2_Witness ==
    /\ call.op = "glyph_width"
    /\ M.kind = "table"
    /\ Len(M.lookup_table) > 0
    /\ index(F, call.arg) = Len(M.lookup_table)
    /\ M.default_width = None
    /\ call.ret = Ok(Range(Zero, U(10)))

\* C10: range_size returns 0 when start >= end and end - start otherwise.
C10_RangeSize ==
    call.op = "range_size" =>
        IF Lt(call.arg.start, call.arg.end)
        THEN FitsU32(call.ret) /\ Add(call.arg.start, call.ret) = call.arg.end
        ELSE call.ret = <<0, 0>>

\* the reversed range 5..3 measured 0
C10_Witness ==
    /\ call.op = "range_size"
    /\ call.arg = Range(U(5), U(3))
    /\ call.ret = Zero

\* the range the mapping returns for c
MappedRange(c) == glyph_width(M, F, c).value

\* the range lies in the font's cell: it starts at one of the cell's pixel
\* columns and ends within the cell
InCell(r) ==
    /\ Lt(r.start, F.character_size.width)
    /\ Le(Add(r.start, Extent(r)), F.character_size.width)

\* C3 as stated: for every mapping, the glyph's width is the size of the
\* mapped range and the crop starts at x = range.start, y = 0.
C3_Original ==
    (call.op = "glyph" /\ ~call.ret.panicked) =>
        /\ call.ret.value.size.width = Extent(MappedRange(call.arg))
        /\ call.ret.value.area.top_left = Point(MappedRange(call.arg).start, Zero)

\* C3 amended: when the mapped range lies within the font's cell, the glyph's
\* width is the size of the mapped range and the crop starts at
\* x = range.start, y = 0.
C3_GlyphWidthInCell ==
    (call.op = "glyph" /\ ~call.ret.panicked /\ InCell(MappedRange(call.arg))) =>
        /\ call.ret.value.size.width = Extent(MappedRange(call.arg))
        /\ call.ret.value.area.top_left = Point(MappedRange(call.arg).start, Zero)

\* a closure's range 2..5 gave a glyph 3 wide, cropped from x = 2
C3_Witness ==
    /\ call.op = "glyph" /\ ~call.ret.panicked
    /\ MappedRange(call.arg) = Range(U(2), U(5))
    /\ call.ret.value.size.width = U(3)
    /\ call.ret.value.area.top_left = Point(U(2), Zero)

RECURSIVE Times(_, _)
Times(n, x) == IF n = 0 THEN Zero ELSE Add(x, Times(n - 1, x))

\* the sum of the mapped range sizes of text[i..]
RECURSIVE SumExtents(_, _)
SumExtents(text, i) ==
    IF i > Len(text) THEN Zero
    ELSE Add(Extent(MappedRange(text[i])), SumExtents(text, i + 1))

\* C5 as stated: measure_string_width(s) is 0 for the empty s and otherwise
\* the sum of the mapped range sizes plus spacing * (len(s) - 1).
C5_Original ==
    call.op = "measure_string_width" =>
        /\ ~call.ret.panicked
        /\ call.ret.value =
              (IF Len(call.arg) = 0 THEN Zero
               ELSE Add(SumExtents(call.arg, 1),
                        Times(Len(call.arg) - 1, F.character_spacing)))

\* the total widths of the glyphs of text[i..], one for each way the glyph
\* calls can turn out
RECURSIVE GlyphWidthSums(_, _)
GlyphWidthSums(text, i) ==
    IF i > Len(text) THEN {Zero}
    ELSE { Add(g.value.size.width, rest) :
             g \in glyph(heap, vf, text[i]), rest \in GlyphWidthSums(text, i + 1) }

\* C6 as stated, taken where every mapped range lies within the font's
\* cell: for a non-empty text, measure_string_width equals the extent of the
\* glyphs glyph() returns, laid out with the font's spacing between them.
C6_Original ==
    (/\ call.op = "measure_string_width"
     /\ Len(call.arg) > 0
     /\ \A i \in 1..Len(call.arg) :
           /\ Panic \notin glyph(heap, vf, call.arg[i])
           /\ InCell(MappedRange(call.arg[i]))) =>
        /\ ~call.ret.panicked
        /\ \A w \in GlyphWidthSums(call.arg, 1) :
              call.ret.value =
                Add(w, Times(Len(call.arg) - 1, F.character_spacing))

\* C9 as stated: with a lookup table mapping, glyph_width, glyph and
\* measure_string_width never fail and never overflow.
C9_Original ==
    (/\ call.op \in {"glyph_width", "glyph", "measure_string_width"}
     /\ M.kind = "table") =>
        ~call.ret.panicked /\ ~call.ret.wrapped

\* C7: two VariableFonts compare equal exactly when their fonts are equal
\* and their mapping references are the same object; with equal fonts and
\* two distinct mapping objects of the same table and default they compare
\* unequal.
C7_EqByIdentity ==
    call.op = "eq" =>
        /\ call.ret <=> (/\ vf.mono_font = other.mono_font
                         /\ vf.glyph_width_mapping = other.glyph_width_mapping)
        /\ (/\ vf.mono_font = other.mono_font
            /\ vf.glyph_width_mapping # other.glyph_width_mapping
            /\ heap[vf.glyph_width_mapping] = heap[other.glyph_width_mapping])
              => call.ret = FALSE

\* equal fonts and two distinct mapping objects of the same value compared
\* unequal
C7_Witness ==
    /\ call.op = "eq"
    /\ vf.mono_font = other.mono_font
    /\ vf.glyph_width_mapping # other.glyph_width_mapping
    /\ heap[vf.glyph_width_mapping] = heap[other.glyph_width_mapping]
    /\ call.ret = FALSE

\* the heap with other's mapping object replaced by m
WithMapping(m) == [heap EXCEPT ![other.glyph_width_mapping] = m]

\* C8: character_height, character_spacing, baseline, strikethrough and
\* underline return what the underlying font returns, whatever mapping the
\* VariableFont has.
C8_MetricsPassThrough ==
    /\ call.op = "character_height" =>
          /\ call.ret = mono_character_height(other.mono_font)
          /\ \A m \in Mappings : character_height(WithMapping(m), other) = call.ret
    /\ call.op = "character_spacing" =>
          /\ call.ret = mono_character_spacing(other.mono_font)
          /\ \A m \in Mappings : character_spacing(WithMapping(m), other) = call.ret
    /\ call.op = "baseline" =>
          /\ call.ret = mono_baseline(other.mono_font)
          /\ \A m \in Mappings : baseline(WithMapping(m), other) = call.ret
    /\ call.op = "strikethrough" =>
          /\ call.ret = mono_strikethrough(other.mono_font)
          /\ \A m \in Mappings : strikethrough(WithMapping(m), other) = call.ret
    /\ call.op = "underline" =>
          /\ call.ret = mono_underline(other.mono_font)
          /\ \A m \in Mappings : underline(WithMapping(m), other) = call.ret

\* after its mapping and its font's spacing were replaced, other answered
\* the baseline of its font
C8_Witness ==
    /\ call.op = "baseline"
    /\ other.glyph_width_mapping # vf.glyph_width_mapping
    /\ other.mono_font # vf.mono_font
    /\ call.ret = U(9)

====
